---- MODULE Spec2Model ----
(***************************************************************************)
(* Model of src/src/main.c: the CCS811 air-quality sensor driver.  main()  *)
(* runs the boot handshake over I2C, then the interrupt-driven read loop   *)
(* that reads ALG_RESULT_DATA and drives the LEDs.  The GPIO interrupt     *)
(* handlers and the SysTick handler are the asynchronous contexts.         *)
(***************************************************************************)
EXTENDS Integers, Naturals, Sequences, FiniteSets, TLC

VARIABLES
  pc,            \* main(): the source line main is at ("boot" = lines 339-356)
  bootIdx,       \* main(): index of the current statement of lines 339-356
  fn,            \* the callee main is in: "main" (none), "Delay", "xfer", "ret"
  msTicks,       \* static volatile uint32_t msTicks
  curTicks,      \* Delay(): local curTicks
  data,          \* main(): uint8_t data[1]
  algresultData, \* main(): uint8_t algresultData[2]
  concatData,    \* main(): uint32_t concatData
  dataAvailable, \* bool dataAvailable
  leds,          \* the value last given to BSP_LedsSet (0 after BSP_LedsInit)
  nvicEnabled,   \* NVIC enable bit of GPIO_EVEN_IRQn / GPIO_ODD_IRQn
  intFlag,       \* GPIO interrupt flag raised on each IRQ line
  xfer,          \* the I2C transfer sequence in progress (i2cTransfer), or NoXfer
  result,        \* I2C_TransferReturn_TypeDef result of the last transfer
  ret,           \* value the last register operation returned to main
  busActive,     \* number of bus transactions begun and not yet ended
  rx,            \* history: the bytes the device delivered in the last transfer
  bootLog,       \* history: the bus transactions issued by lines 339-356
  bootFail,      \* history: index in bootLog of the first failed one, 0 if none
  iterReads,     \* history: reads of ALG_RESULT_DATA issued in this iteration
  readSinceSet,  \* history: a read of ALG_RESULT_DATA was issued after the last set
  clock          \* history: the number of SysTick interrupts handled so far

vars == <<pc, bootIdx, fn, msTicks, curTicks, data, algresultData, concatData,
          dataAvailable, leds, nvicEnabled, intFlag, xfer, result, ret,
          busActive, rx, bootLog, bootFail, iterReads, readSinceSet,
          clock>>

----------------------------------------------------------------------------
(* Program constants                                                       *)

CCS811_ADDR_STATUS == 0
CCS811_ADDR_MEASURE_MODE == 1
CCS811_ADDR_ALG_RESULT_DATA == 2
CCS811_ADDR_THRESHOLDS == 16
CCS811_ADDR_HW_ID == 32
CCS811_ADDR_ERR_ID == 224
CCS811_ADDR_FW_VERIFY == 243
CCS811_ADDR_APP_START == 244
CCS811_MEASURE_MODE_DRIVE_MODE_1SEC == 16
CCS811_MEASURE_MODE_INTERRUPT == 8
CCS811_MEASURE_MODE_THRESH == 4
CCS811_MEASURE_MODE_DRIVE_MODE_SHIFT == 4

\* A uint32_t is kept as its two 16-bit halves <<high, low>>, so that its
\* arithmetic is modulo 2^32
Half == 65536
U32(n) == <<n \div Half, n % Half>>
Inc32(a) ==
  IF a[2] + 1 < Half THEN <<a[1], a[2] + 1>>
  ELSE <<(a[1] + 1) % Half, 0>>
Sub32(a, b) ==
  IF a[2] >= b[2]
  THEN <<(a[1] - b[1] + Half) % Half, a[2] - b[2]>>
  ELSE <<(a[1] - b[1] - 1 + 2 * Half) % Half, a[2] - b[2] + Half>>
Less32(a, b) == a[1] < b[1] \/ (a[1] = b[1] /\ a[2] < b[2])

\* The two NVIC lines the sensor pin can raise
GPIO_EVEN_IRQn == "GPIO_EVEN_IRQn"
GPIO_ODD_IRQn == "GPIO_ODD_IRQn"
Lines == {GPIO_EVEN_IRQn, GPIO_ODD_IRQn}

\* I2C_TransferReturn_TypeDef values that matter to the code
i2cTransferDone == "i2cTransferDone"
i2cTransferInProgress == "i2cTransferInProgress"
i2cTransferNack == "i2cTransferNack"
i2cTransferBusErr == "i2cTransferBusErr"

----------------------------------------------------------------------------
(* Bounds                                                                  *)

\* How many entries of ByteTable the device may put on the bus
NumBytes == 4

\* 0x03 0x84 = 900, 0x05 0xDC = 1500, 0x03 0xDC = 988, 0x04 0xB0 = 1200
ByteTable == <<3, 132, 5, 220, 4, 176, 0>>
BusBytes == {ByteTable[i] : i \in 1..NumBytes}

----------------------------------------------------------------------------
(* Bit arithmetic of C on non-negative integers                            *)

RECURSIVE BitOr(_, _)
BitOr(a, b) ==
  IF a = 0 THEN b
  ELSE IF b = 0 THEN a
  ELSE (IF (a % 2 = 1) \/ (b % 2 = 1) THEN 1 ELSE 0) + 2 * BitOr(a \div 2, b \div 2)

\* a << n for a uint8_t promoted to int: no bit is lost for n = 8
ShiftLeft(a, n) == a * (2 ^ n)

----------------------------------------------------------------------------
(* main(), lines 339-356: the boot statements in program order             *)

BootStmt(op, id, arg) == [op |-> op, id |-> id, arg |-> arg]

\* Variant of BootProgram: the interrupt flag is added to the measure mode
\* twice
BootProgram_doubleFlag == <<
  BootStmt("Delay", 0, 1000),
  BootStmt("decl", 0, 1),
  BootStmt("Delay", 0, 10),
  BootStmt("readMailbox", CCS811_ADDR_HW_ID, 1),
  BootStmt("Delay", 0, 10),
  BootStmt("readMailbox", CCS811_ADDR_STATUS, 1),
  BootStmt("Delay", 0, 10),
  BootStmt("writeNoData", CCS811_ADDR_FW_VERIFY, 0),
  BootStmt("Delay", 0, 100),
  BootStmt("writeNoData", CCS811_ADDR_APP_START, 0),
  BootStmt("Delay", 0, 1000),
  BootStmt("writeRegister", CCS811_ADDR_MEASURE_MODE,
           CCS811_MEASURE_MODE_DRIVE_MODE_1SEC + CCS811_MEASURE_MODE_INTERRUPT
           + CCS811_MEASURE_MODE_INTERRUPT),
  BootStmt("Delay", 0, 10),
  BootStmt("readMailbox", CCS811_ADDR_ERR_ID, 1),
  BootStmt("Delay", 0, 10),
  BootStmt("readMailbox", CCS811_ADDR_MEASURE_MODE, 1) >>

BootProgram == <<
  BootStmt("Delay", 0, 1000),
  BootStmt("decl", 0, 1),
  BootStmt("Delay", 0, 10),
  BootStmt("readMailbox", CCS811_ADDR_HW_ID, 1),
  BootStmt("Delay", 0, 10),
  BootStmt("readMailbox", CCS811_ADDR_STATUS, 1),
  BootStmt("Delay", 0, 10),
  BootStmt("writeNoData", CCS811_ADDR_FW_VERIFY, 0),
  BootStmt("Delay", 0, 100),
  BootStmt("writeNoData", CCS811_ADDR_APP_START, 0),
  BootStmt("Delay", 0, 1000),
  BootStmt("writeRegister", CCS811_ADDR_MEASURE_MODE,
           CCS811_MEASURE_MODE_DRIVE_MODE_1SEC + CCS811_MEASURE_MODE_INTERRUPT),
  BootStmt("Delay", 0, 10),
  BootStmt("readMailbox", CCS811_ADDR_ERR_ID, 1),
  BootStmt("Delay", 0, 10),
  BootStmt("readMailbox", CCS811_ADDR_MEASURE_MODE, 1) >>

\* Variant of AfterStmt: the hardware id gates the boot, the read of HW_ID is
\* repeated until the device answers 0x84
AfterStmt_hwIdGate ==
  IF pc = "boot"
  THEN IF BootProgram[bootIdx].id = CCS811_ADDR_HW_ID /\ data # <<132>>
       THEN <<"boot", bootIdx>>
       ELSE IF bootIdx < Len(BootProgram)
            THEN <<"boot", bootIdx + 1>>
            ELSE <<"L357_even", bootIdx>>
  ELSE <<"L368", bootIdx>>

\* Variant of AfterStmt: after the read of the result, an edge raised in the
\* meantime makes the loop read again before it goes on
AfterStmt_rereadOnEdge ==
  IF pc = "boot"
  THEN IF bootIdx < Len(BootProgram)
       THEN <<"boot", bootIdx + 1>>
       ELSE <<"L357_even", bootIdx>>
  ELSE IF \E l \in Lines : intFlag[l]
       THEN <<"L367", bootIdx>>
       ELSE <<"L368", bootIdx>>

\* The statement main is at, and where main goes after it
Stmt == BootProgram[bootIdx]
InBoot(op) == pc = "boot" /\ fn = "main" /\ Stmt.op = op
AfterStmt ==
  IF pc = "boot"
  THEN IF bootIdx < Len(BootProgram)
       THEN <<"boot", bootIdx + 1>>
       ELSE <<"L357_even", bootIdx>>
  ELSE <<"L368", bootIdx>>

----------------------------------------------------------------------------
(* The I2C transfer sequence (I2C_TransferSeq_TypeDef)                     *)

NoXfer == [flags |-> "none", id |-> 0, len |-> 0, buf |-> "none",
           phase |-> "idle", offset |-> 0, before |-> <<>>, caller |-> "none",
           payload |-> <<>>]

\* The caller's buffer a transfer reads into
Buffer(name) ==
  IF name = "data" THEN data
  ELSE IF name = "algresultData" THEN algresultData
  ELSE <<>>

----------------------------------------------------------------------------
(* State after construction: main() up to line 338 has run                 *)

\* Variant of Init: enableSensorInterrupts() has been called before the boot
\* sequence
Init_armedEarly ==
  /\ pc = "boot"
  /\ bootIdx = 1
  /\ fn = "main"
  /\ msTicks = U32(0)
  /\ curTicks = U32(0)
  /\ data = <<0>>
  /\ algresultData = <<0, 0>>
  /\ concatData = 0
  /\ dataAvailable = FALSE
  /\ leds = 0
  /\ nvicEnabled = [l \in Lines |-> TRUE]
  /\ intFlag = [l \in Lines |-> FALSE]
  /\ xfer = NoXfer
  /\ result = "none"
  /\ ret = <<>>
  /\ busActive = 0
  /\ rx = <<>>
  /\ bootLog = <<>>
  /\ bootFail = 0
  /\ iterReads = 0
  /\ readSinceSet = TRUE
  /\ clock = 0

Init ==
  /\ pc = "boot"
  /\ bootIdx = 1
  /\ fn = "main"
  /\ msTicks = U32(0)
  /\ curTicks = U32(0)
  /\ data = <<0>>
  /\ algresultData = <<0, 0>>
  /\ concatData = 0
  /\ dataAvailable = FALSE
  /\ leds = 0
  /\ nvicEnabled = [l \in Lines |-> FALSE]
  /\ intFlag = [l \in Lines |-> FALSE]
  /\ xfer = NoXfer
  /\ result = "none"
  /\ ret = <<>>
  /\ busActive = 0
  /\ rx = <<>>
  /\ bootLog = <<>>
  /\ bootFail = 0
  /\ iterReads = 0
  /\ readSinceSet = TRUE
  /\ clock = 0

----------------------------------------------------------------------------
(* Delay() and the tick                                                    *)

\* Variant of DelayWaiting: the deadline curTicks + dlyTicks is computed once,
\* in 32 bits, and the counter is compared against it
DelayWaiting_absolute ==
  LET d == U32(Stmt.arg)
      lo == curTicks[2] + d[2]
      deadline == <<(curTicks[1] + d[1] + lo \div Half) % Half, lo % Half>>
  IN  Less32(msTicks, deadline)

\* Delay(), line 314: the loop condition (msTicks - curTicks) < dlyTicks
DelayWaiting == Less32(Sub32(msTicks, curTicks), U32(Stmt.arg))

\* Delay(), line 313: curTicks = msTicks
Delay_Call ==
  /\ InBoot("Delay")
  /\ fn' = "Delay"
  /\ curTicks' = msTicks
  /\ UNCHANGED <<clock, pc, bootIdx, msTicks, data, algresultData, concatData,
                 dataAvailable, leds, nvicEnabled, intFlag, xfer, result, ret,
                 busActive, rx, bootLog, bootFail, iterReads, readSinceSet>>

\* Variant of Delay_Return: the wait is abandoned without testing the elapsed
\* ticks
Delay_Return_early ==
  /\ pc = "boot" /\ fn = "Delay"
  /\ fn' = "main"
  /\ pc' = AfterStmt[1]
  /\ bootIdx' = AfterStmt[2]
  /\ UNCHANGED <<clock, msTicks, curTicks, data, algresultData, concatData,
                 dataAvailable, leds, nvicEnabled, intFlag, xfer, result, ret,
                 busActive, rx, bootLog, bootFail, iterReads, readSinceSet>>

\* Delay(), line 314: the loop ends once the condition is false
Delay_Return ==
  /\ pc = "boot" /\ fn = "Delay"
  /\ ~DelayWaiting
  /\ fn' = "main"
  /\ pc' = AfterStmt[1]
  /\ bootIdx' = AfterStmt[2]
  /\ UNCHANGED <<clock, msTicks, curTicks, data, algresultData, concatData,
                 dataAvailable, leds, nvicEnabled, intFlag, xfer, result, ret,
                 busActive, rx, bootLog, bootFail, iterReads, readSinceSet>>

\* SysTick_Handler(): msTicks++.  msTicks is read only by Delay(), so the
\* tick is modelled while Delay() is waiting on it; a tick at any other time
\* only shifts the value Delay() samples into curTicks.
SysTick_Handler ==
  /\ fn = "Delay"
  /\ DelayWaiting
  /\ msTicks' = Inc32(msTicks)
  /\ clock' = clock + 1
  /\ UNCHANGED <<pc, bootIdx, fn, curTicks, data, algresultData, concatData,
                 dataAvailable, leds, nvicEnabled, intFlag, xfer, result, ret,
                 busActive, rx, bootLog, bootFail, iterReads, readSinceSet>>

\* main(), line 340: uint8_t data[1] comes into scope with an indeterminate
\* value
main_L340_data ==
  /\ InBoot("decl")
  /\ \E b \in BusBytes : data' = <<b>>
  /\ pc' = AfterStmt[1]
  /\ bootIdx' = AfterStmt[2]
  /\ UNCHANGED <<clock, fn, msTicks, curTicks, algresultData, concatData,
                 dataAvailable, leds, nvicEnabled, intFlag, xfer, result, ret,
                 busActive, rx, bootLog, bootFail, iterReads, readSinceSet>>

----------------------------------------------------------------------------
(* The register operations: set up i2cTransfer and start the transfer      *)

\* The transfer sequence a register operation builds
TransferSeq(caller, flags, id, len, buf) ==
  [flags |-> flags, id |-> id, len |-> len, buf |-> buf, phase |-> "write",
   offset |-> 0, before |-> Buffer(buf), caller |-> caller,
   payload |-> <<>>]

\* What starting a transfer changes besides xfer: one more transaction on the
\* bus, the result not yet known, and the histories
StartTransfer(op, id, len) ==
  /\ fn' = "xfer"
  /\ result' = i2cTransferInProgress
  /\ ret' = <<>>
  /\ busActive' = busActive + 1
  /\ rx' = <<>>
  /\ bootLog' = IF pc = "boot"
                THEN Append(bootLog, [op |-> op, id |-> id, len |-> len,
                                      at |-> clock])
                ELSE bootLog
  /\ UNCHANGED <<clock, pc, bootIdx, msTicks, curTicks, data, algresultData,
                 concatData, dataAvailable, leds, nvicEnabled, intFlag,
                 bootFail>>

\* readMailbox(id, length, data), lines 260-277; called at lines 342, 344,
\* 354, 356 with (id, 1, data) and at line 367 with
\* (CCS811_ADDR_ALG_RESULT_DATA, 2, algresultData)
readMailbox_Call ==
  /\ fn = "main"
  /\ \/ InBoot("readMailbox")
     \/ pc = "L367"
  /\ LET id  == IF pc = "boot" THEN Stmt.id ELSE CCS811_ADDR_ALG_RESULT_DATA
         len == IF pc = "boot" THEN Stmt.arg ELSE 2
         buf == IF pc = "boot" THEN "data" ELSE "algresultData"
     IN /\ xfer' = TransferSeq("readMailbox", "I2C_FLAG_WRITE_READ", id, len, buf)
        /\ StartTransfer("readMailbox", id, len)
  /\ iterReads' = IF pc = "L367" THEN iterReads + 1 ELSE iterReads
  /\ readSinceSet' = IF pc = "L367" THEN TRUE ELSE readSinceSet

\* Variant of writeRegister_Call: the payload length is taken as
\* sizeof(uint8_t*), as writeMailbox does at line 222
writeRegister_Call_sizeofPointer ==
  /\ InBoot("writeRegister")
  /\ xfer' = [TransferSeq("writeRegister", "I2C_FLAG_WRITE_WRITE", Stmt.id, 4, "none")
                EXCEPT !.payload = <<Stmt.arg % 256>>]
  /\ StartTransfer("writeRegister", Stmt.id, 4)
  /\ UNCHANGED <<iterReads, readSinceSet>>

\* writeRegister(id, data), lines 179-196; called at line 352.  The payload
\* buf[1] is the one byte of the uint8_t parameter data.
writeRegister_Call ==
  /\ InBoot("writeRegister")
  /\ xfer' = [TransferSeq("writeRegister", "I2C_FLAG_WRITE_WRITE", Stmt.id, 1, "none")
                EXCEPT !.payload = <<Stmt.arg % 256>>]
  /\ StartTransfer("writeRegister", Stmt.id, 1)
  /\ UNCHANGED <<iterReads, readSinceSet>>

\* writeNoData(id), lines 235-249; called at lines 346 and 348
writeNoData_Call ==
  /\ InBoot("writeNoData")
  /\ xfer' = TransferSeq("writeNoData", "I2C_FLAG_WRITE", Stmt.id, 0, "none")
  /\ StartTransfer("writeNoData", Stmt.id, 0)
  /\ UNCHANGED <<iterReads, readSinceSet>>

----------------------------------------------------------------------------
(* The transfer itself: I2CSPM_Transfer() / I2C_TransferInit()+I2C_Transfer()*)
(* drive the peripheral until the transfer is done or has failed.  The     *)
(* driver moves each received byte straight into the buffer the caller     *)
(* passed in buf[1].data.                                                  *)

\* A transfer ends: the bus is released and the callee goes on to its return
EndTransfer(res) ==
  /\ result' = res
  /\ fn' = "ret"
  /\ busActive' = busActive - 1
  /\ bootFail' = IF pc = "boot" /\ res # i2cTransferDone /\ bootFail = 0
                 THEN Len(bootLog)
                 ELSE bootFail

\* The address and the register id are written and acknowledged
I2C_Transfer_Write ==
  /\ fn = "xfer" /\ xfer.phase = "write"
  /\ xfer' = [xfer EXCEPT !.phase = "data"]
  /\ UNCHANGED <<clock, pc, bootIdx, fn, msTicks, curTicks, data, algresultData,
                 concatData, dataAvailable, leds, nvicEnabled, intFlag, result,
                 ret, busActive, rx, bootLog, bootFail, iterReads, readSinceSet>>

\* One byte of buf[1] moves: a received byte is stored at data[offset], a
\* payload byte is sent
I2C_Transfer_Data ==
  /\ fn = "xfer" /\ xfer.phase = "data" /\ xfer.offset < xfer.len
  /\ xfer' = [xfer EXCEPT !.offset = @ + 1]
  /\ IF xfer.flags = "I2C_FLAG_WRITE_READ"
     THEN \E b \in BusBytes :
            /\ rx' = Append(rx, b)
            /\ data' = IF xfer.buf = "data"
                       THEN [data EXCEPT ![xfer.offset + 1] = b]
                       ELSE data
            /\ algresultData' = IF xfer.buf = "algresultData"
                                THEN [algresultData EXCEPT ![xfer.offset + 1] = b]
                                ELSE algresultData
     ELSE UNCHANGED <<rx, data, algresultData>>
  /\ UNCHANGED <<clock, pc, bootIdx, fn, msTicks, curTicks, concatData, dataAvailable,
                 leds, nvicEnabled, intFlag, result, ret, busActive, bootLog,
                 bootFail, iterReads, readSinceSet>>

\* All of buf[1] has moved: the transfer returns i2cTransferDone
I2C_Transfer_Done ==
  /\ fn = "xfer" /\ xfer.phase = "data" /\ xfer.offset = xfer.len
  /\ xfer' = [xfer EXCEPT !.phase = "end"]
  /\ EndTransfer(i2cTransferDone)
  /\ UNCHANGED <<clock, pc, bootIdx, msTicks, curTicks, data, algresultData,
                 concatData, dataAvailable, leds, nvicEnabled, intFlag, ret,
                 rx, bootLog, iterReads, readSinceSet>>

\* The transfer fails: not acknowledged while the address and id are written,
\* or a bus error, lost arbitration or timeout before all of buf[1] has moved
I2C_Transfer_Fail ==
  /\ fn = "xfer"
  /\ \/ xfer.phase = "write"
     \/ xfer.phase = "data" /\ xfer.offset < xfer.len
  /\ xfer' = [xfer EXCEPT !.phase = "end"]
  /\ EndTransfer(IF xfer.phase = "write" THEN i2cTransferNack ELSE i2cTransferBusErr)
  /\ UNCHANGED <<clock, pc, bootIdx, msTicks, curTicks, data, algresultData,
                 concatData, dataAvailable, leds, nvicEnabled, intFlag, ret,
                 rx, bootLog, iterReads, readSinceSet>>

----------------------------------------------------------------------------
(* The register operations return; main() discards every returned value    *)

\* Back in main() after the call
ReturnToMain ==
  /\ fn' = "main"
  /\ xfer' = NoXfer
  /\ pc' = AfterStmt[1]
  /\ bootIdx' = AfterStmt[2]
  /\ UNCHANGED <<clock, msTicks, curTicks, data, algresultData, concatData,
                 dataAvailable, leds, nvicEnabled, intFlag, result, busActive,
                 rx, bootLog, bootFail, iterReads, readSinceSet>>

\* Lines 199-203 and 280-284: if(result != i2cTransferDone) return 1; return 0;
StatusOf(res) == IF res # i2cTransferDone THEN <<1>> ELSE <<0>>

\* Variant of readMailbox_Return: a failed transfer is treated as fatal, the
\* function spins instead of returning
readMailbox_Return_haltOnFailure ==
  /\ fn = "ret" /\ xfer.caller = "readMailbox"
  /\ result = i2cTransferDone
  /\ ret' = StatusOf(result)
  /\ ReturnToMain

\* readMailbox(), lines 280-284
readMailbox_Return ==
  /\ fn = "ret" /\ xfer.caller = "readMailbox"
  /\ ret' = StatusOf(result)
  /\ ReturnToMain

\* writeRegister(), lines 199-203
writeRegister_Return ==
  /\ fn = "ret" /\ xfer.caller = "writeRegister"
  /\ ret' = StatusOf(result)
  /\ ReturnToMain

\* writeNoData(), lines 252-256: the loop ends when result is no longer
\* i2cTransferInProgress, and the void function returns nothing
writeNoData_Return ==
  /\ fn = "ret" /\ xfer.caller = "writeNoData"
  /\ result # i2cTransferInProgress
  /\ ret' = <<>>
  /\ ReturnToMain

----------------------------------------------------------------------------
(* main(), lines 357-384: arming the interrupt and the read loop           *)

\* enableSensorInterrupts(), lines 149-150; called at lines 357 and 382.
\* The GPIO line to the NVIC is level-sensitive: clearing the pending bit
\* while the GPIO flag is still raised leaves the interrupt pending.
enableSensorInterrupts_EVEN ==
  /\ fn = "main" /\ pc \in {"L357_even", "L382_even"}
  /\ nvicEnabled' = [nvicEnabled EXCEPT ![GPIO_EVEN_IRQn] = TRUE]
  /\ pc' = IF pc = "L357_even" THEN "L357_odd" ELSE "L382_odd"
  /\ UNCHANGED <<clock, bootIdx, fn, msTicks, curTicks, data, algresultData,
                 concatData, dataAvailable, leds, intFlag, xfer, result, ret,
                 busActive, rx, bootLog, bootFail, iterReads, readSinceSet>>

\* enableSensorInterrupts(), lines 151-152
enableSensorInterrupts_ODD ==
  /\ fn = "main" /\ pc \in {"L357_odd", "L382_odd"}
  /\ nvicEnabled' = [nvicEnabled EXCEPT ![GPIO_ODD_IRQn] = TRUE]
  /\ pc' = IF pc = "L357_odd" THEN "L358" ELSE "L383"
  /\ UNCHANGED <<clock, bootIdx, fn, msTicks, curTicks, data, algresultData,
                 concatData, dataAvailable, leds, intFlag, xfer, result, ret,
                 busActive, rx, bootLog, bootFail, iterReads, readSinceSet>>

\* EMU_EnterEM3(false), lines 358 and 383: the processor waits for an
\* interrupt
EMU_EnterEM3 ==
  /\ fn = "main" /\ pc \in {"L358", "L383"}
  /\ pc' = IF pc = "L358" THEN "L358_wfi" ELSE "L383_wfi"
  /\ UNCHANGED <<clock, bootIdx, fn, msTicks, curTicks, data, algresultData,
                 concatData, dataAvailable, leds, nvicEnabled, intFlag, xfer,
                 result, ret, busActive, rx, bootLog, bootFail, iterReads,
                 readSinceSet>>

\* Where main() continues when the wait for an interrupt ends
WakeTo(p) ==
  IF p = "L358_wfi" THEN "L359"
  ELSE IF p = "L383_wfi" THEN "L363_even"
  ELSE p

\* main(), line 359: uint8_t algresultData[2] comes into scope with an
\* indeterminate value
main_L359_algresultData ==
  /\ fn = "main" /\ pc = "L359"
  /\ \E hi \in BusBytes, lo \in BusBytes : algresultData' = <<hi, lo>>
  /\ pc' = "L363_even"
  /\ UNCHANGED <<clock, bootIdx, fn, msTicks, curTicks, data, concatData,
                 dataAvailable, leds, nvicEnabled, intFlag, xfer, result, ret,
                 busActive, rx, bootLog, bootFail, iterReads, readSinceSet>>

\* disableSensorInterrupts(), line 139; called at line 363, the top of an
\* iteration
disableSensorInterrupts_EVEN ==
  /\ fn = "main" /\ pc = "L363_even"
  /\ nvicEnabled' = [nvicEnabled EXCEPT ![GPIO_EVEN_IRQn] = FALSE]
  /\ pc' = "L363_odd"
  /\ iterReads' = 0
  /\ UNCHANGED <<clock, bootIdx, fn, msTicks, curTicks, data, algresultData,
                 concatData, dataAvailable, leds, intFlag, xfer, result, ret,
                 busActive, rx, bootLog, bootFail, readSinceSet>>

\* Variant of disableSensorInterrupts_ODD: the odd line is left enabled
disableSensorInterrupts_ODD_forgotten ==
  /\ fn = "main" /\ pc = "L363_odd"
  /\ pc' = "L364"
  /\ UNCHANGED <<clock, bootIdx, fn, msTicks, curTicks, data, algresultData,
                 concatData, dataAvailable, leds, nvicEnabled, intFlag, xfer,
                 result, ret, busActive, rx, bootLog, bootFail, iterReads,
                 readSinceSet>>

\* disableSensorInterrupts(), line 140
disableSensorInterrupts_ODD ==
  /\ fn = "main" /\ pc = "L363_odd"
  /\ nvicEnabled' = [nvicEnabled EXCEPT ![GPIO_ODD_IRQn] = FALSE]
  /\ pc' = "L364"
  /\ UNCHANGED <<clock, bootIdx, fn, msTicks, curTicks, data, algresultData,
                 concatData, dataAvailable, leds, intFlag, xfer, result, ret,
                 busActive, rx, bootLog, bootFail, iterReads, readSinceSet>>

\* Variant of main_L364_if: the flag is cleared as soon as it is seen, before
\* the read is issued
main_L364_if_clearFirst ==
  /\ fn = "main" /\ pc = "L364"
  /\ pc' = IF dataAvailable THEN "L367" ELSE "L382_even"
  /\ dataAvailable' = FALSE
  /\ UNCHANGED <<clock, bootIdx, fn, msTicks, curTicks, data, algresultData,
                 concatData, leds, nvicEnabled, intFlag, xfer, result, ret,
                 busActive, rx, bootLog, bootFail, iterReads, readSinceSet>>

\* Variant of main_L364_if: with no event pending the iteration goes straight
\* back to the wait, without enableSensorInterrupts()
main_L364_if_skipEnable ==
  /\ fn = "main" /\ pc = "L364"
  /\ pc' = IF dataAvailable THEN "L367" ELSE "L383"
  /\ UNCHANGED <<clock, bootIdx, fn, msTicks, curTicks, data, algresultData,
                 concatData, dataAvailable, leds, nvicEnabled, intFlag, xfer,
                 result, ret, busActive, rx, bootLog, bootFail, iterReads,
                 readSinceSet>>

\* Variant of main_L364_if: the final else of lines 377-379 hangs on the outer
\* if, so an iteration without an event switches the LEDs off
main_L364_if_ledsOff ==
  /\ fn = "main" /\ pc = "L364"
  /\ pc' = IF dataAvailable THEN "L367" ELSE "L382_even"
  /\ leds' = IF dataAvailable THEN leds ELSE 0
  /\ UNCHANGED <<clock, bootIdx, fn, msTicks, curTicks, data, algresultData,
                 concatData, dataAvailable, nvicEnabled, intFlag, xfer,
                 result, ret, busActive, rx, bootLog, bootFail, iterReads,
                 readSinceSet>>

\* main(), line 364: if(dataAvailable)
main_L364_if ==
  /\ fn = "main" /\ pc = "L364"
  /\ pc' = IF dataAvailable THEN "L367" ELSE "L382_even"
  /\ UNCHANGED <<clock, bootIdx, fn, msTicks, curTicks, data, algresultData,
                 concatData, dataAvailable, leds, nvicEnabled, intFlag, xfer,
                 result, ret, busActive, rx, bootLog, bootFail, iterReads,
                 readSinceSet>>

\* Variant of Concat: the low byte is taken first
Concat_littleEndian(buf) == BitOr(ShiftLeft(buf[2], 8), buf[1])

\* main(), line 368: the expression (algresultData[0] << 8) | algresultData[1]
Concat(buf) == BitOr(ShiftLeft(buf[1], 8), buf[2])

\* main(), line 368: uint32_t concatData = ...
main_L368_concatData ==
  /\ fn = "main" /\ pc = "L368"
  /\ concatData' = Concat(algresultData)
  /\ pc' = "L369"
  /\ UNCHANGED <<clock, bootIdx, fn, msTicks, curTicks, data, algresultData,
                 dataAvailable, leds, nvicEnabled, intFlag, xfer, result, ret,
                 busActive, rx, bootLog, bootFail, iterReads, readSinceSet>>

\* main(), line 369: dataAvailable = false
main_L369_clear ==
  /\ fn = "main" /\ pc = "L369"
  /\ dataAvailable' = FALSE
  /\ pc' = "L370"
  /\ UNCHANGED <<clock, bootIdx, fn, msTicks, curTicks, data, algresultData,
                 concatData, leds, nvicEnabled, intFlag, xfer, result, ret,
                 busActive, rx, bootLog, bootFail, iterReads, readSinceSet>>

\* Variant of LedLevel: the alert threshold is compared with >=
LedLevel_inclusive(v) ==
  IF v >= 1200 THEN 3
  ELSE IF v > 900 THEN 1
  ELSE 0

\* main(), lines 370-379: the argument of BSP_LedsSet for a value
LedLevel(v) ==
  IF v > 1200 THEN 3
  ELSE IF v > 900 THEN 1
  ELSE 0

\* main(), lines 370-379: BSP_LedsSet(...)
main_L370_classify ==
  /\ fn = "main" /\ pc = "L370"
  /\ leds' = LedLevel(concatData)
  /\ pc' = "L382_even"
  /\ UNCHANGED <<clock, bootIdx, fn, msTicks, curTicks, data, algresultData,
                 concatData, dataAvailable, nvicEnabled, intFlag, xfer, result,
                 ret, busActive, rx, bootLog, bootFail, iterReads, readSinceSet>>

----------------------------------------------------------------------------
(* The asynchronous contexts                                               *)

\* A pin edge raises the GPIO interrupt flag of its line
SensorEdge ==
  /\ \E l \in Lines :
       /\ ~intFlag[l]
       /\ intFlag' = [intFlag EXCEPT ![l] = TRUE]
  /\ UNCHANGED <<clock, pc, bootIdx, fn, msTicks, curTicks, data, algresultData,
                 concatData, dataAvailable, leds, nvicEnabled, xfer, result,
                 ret, busActive, rx, bootLog, bootFail, iterReads, readSinceSet>>

\* A handler is entered when its line is enabled in the NVIC and raised
Taken(l) == nvicEnabled[l] /\ intFlag[l]

\* Lines 292-294 and 299-301: GPIO_IntClear(GPIO_IntGet()) clears every raised
\* flag, then dataAvailable = true.  Taking the interrupt ends a wait.
HandlerBody ==
  /\ intFlag' = [l \in Lines |-> FALSE]
  /\ dataAvailable' = TRUE
  /\ readSinceSet' = FALSE
  /\ pc' = WakeTo(pc)
  /\ UNCHANGED <<clock, bootIdx, fn, msTicks, curTicks, data, algresultData,
                 concatData, leds, nvicEnabled, xfer, result, ret, busActive,
                 rx, bootLog, bootFail, iterReads>>

\* Variant of GPIO_EVEN_IRQHandler: the handler starts the read of the result
\* itself, from interrupt context
GPIO_EVEN_IRQHandler_busIO ==
  /\ Taken(GPIO_EVEN_IRQn)
  /\ intFlag' = [l \in Lines |-> FALSE]
  /\ dataAvailable' = TRUE
  /\ readSinceSet' = FALSE
  /\ pc' = WakeTo(pc)
  /\ busActive' = busActive + 1
  /\ UNCHANGED <<clock, bootIdx, fn, msTicks, curTicks, data, algresultData,
                 concatData, leds, nvicEnabled, xfer, result, ret, rx, bootLog,
                 bootFail, iterReads>>

\* GPIO_EVEN_IRQHandler(), lines 290-295
GPIO_EVEN_IRQHandler ==
  /\ Taken(GPIO_EVEN_IRQn)
  /\ HandlerBody

\* GPIO_ODD_IRQHandler(), lines 297-302
GPIO_ODD_IRQHandler ==
  /\ Taken(GPIO_ODD_IRQn)
  /\ HandlerBody

\* EMU_EnterEM3() returns on any wake-up, not only on the sensor interrupt
SpuriousWake ==
  /\ pc \in {"L358_wfi", "L383_wfi"}
  /\ pc' = WakeTo(pc)
  /\ UNCHANGED <<clock, bootIdx, fn, msTicks, curTicks, data, algresultData,
                 concatData, dataAvailable, leds, nvicEnabled, intFlag, xfer,
                 result, ret, busActive, rx, bootLog, bootFail, iterReads,
                 readSinceSet>>

----------------------------------------------------------------------------
(* The program                                                             *)

Next ==
  \/ Delay_Call
  \/ Delay_Return
  \/ SysTick_Handler
  \/ main_L340_data
  \/ readMailbox_Call
  \/ writeRegister_Call
  \/ writeNoData_Call
  \/ I2C_Transfer_Write
  \/ I2C_Transfer_Data
  \/ I2C_Transfer_Done
  \/ I2C_Transfer_Fail
  \/ readMailbox_Return
  \/ writeRegister_Return
  \/ writeNoData_Return
  \/ enableSensorInterrupts_EVEN
  \/ enableSensorInterrupts_ODD
  \/ EMU_EnterEM3
  \/ main_L359_algresultData
  \/ disableSensorInterrupts_EVEN
  \/ disableSensorInterrupts_ODD
  \/ main_L364_if
  \/ main_L368_concatData
  \/ main_L369_clear
  \/ main_L370_classify
  \/ SensorEdge
  \/ GPIO_EVEN_IRQHandler
  \/ GPIO_ODD_IRQHandler
  \/ SpuriousWake

Spec == Init /\ [][Next]_vars

\* The steps of main() and of the functions it calls
MainStep ==
  \/ Delay_Call
  \/ Delay_Return
  \/ main_L340_data
  \/ readMailbox_Call
  \/ writeRegister_Call
  \/ writeNoData_Call
  \/ I2C_Transfer_Write
  \/ I2C_Transfer_Data
  \/ I2C_Transfer_Done
  \/ I2C_Transfer_Fail
  \/ readMailbox_Return
  \/ writeRegister_Return
  \/ writeNoData_Return
  \/ enableSensorInterrupts_EVEN
  \/ enableSensorInterrupts_ODD
  \/ EMU_EnterEM3
  \/ main_L359_algresultData
  \/ disableSensorInterrupts_EVEN
  \/ disableSensorInterrupts_ODD
  \/ main_L364_if
  \/ main_L368_concatData
  \/ main_L369_clear
  \/ main_L370_classify

\* The scheduling the processor gives: main() runs whenever it is not waiting
\* for an interrupt, every transfer ends, the tick keeps coming, and a raised
\* and enabled interrupt is taken.  Pin edges and other wake-ups are up to the
\* environment and may never come.
SpecFair ==
  /\ Spec
  /\ WF_vars(MainStep)
  /\ WF_vars(SysTick_Handler)
  /\ WF_vars(GPIO_EVEN_IRQHandler)
  /\ WF_vars(GPIO_ODD_IRQHandler)

----------------------------------------------------------------------------
(* The classification on its own: every 16-bit value is classified once    *)

MaxConcat == Half - 1

InitClassify ==
  /\ pc = "L370"
  /\ bootIdx = Len(BootProgram)
  /\ fn = "main"
  /\ msTicks = U32(0)
  /\ curTicks = U32(0)
  /\ data = <<0>>
  /\ algresultData = <<0, 0>>
  /\ concatData \in 0..MaxConcat
  /\ dataAvailable = FALSE
  /\ leds = 0
  /\ nvicEnabled = [l \in Lines |-> FALSE]
  /\ intFlag = [l \in Lines |-> FALSE]
  /\ xfer = NoXfer
  /\ result = i2cTransferDone
  /\ ret = <<0>>
  /\ busActive = 0
  /\ rx = <<>>
  /\ bootLog = <<>>
  /\ bootFail = 0
  /\ iterReads = 1
  /\ readSinceSet = TRUE
  /\ clock = 0

NextClassify == main_L370_classify

SpecClassify == InitClassify /\ [][NextClassify]_vars

----------------------------------------------------------------------------
(* Delay() on its own: one call, from any of the sampled counter values    *)

\* How far below a carry of the counter the sampled starting values reach
WrapWindow == 3

\* Starting values of msTicks: zero, just below the carry out of the low
\* half, and just below the wrap of the 32-bit counter
StartTicks ==
  {U32(0)} \cup {<<0, Half - 1 - k>> : k \in 0..WrapWindow}
           \cup {<<Half - 1, Half - 1 - k>> : k \in 0..WrapWindow}

\* The Delay() calls of main
DelayCalls == {i \in DOMAIN BootProgram : BootProgram[i].op = "Delay"}

InitDelay ==
  /\ pc = "boot"
  /\ bootIdx \in DelayCalls
  /\ fn = "main"
  /\ msTicks \in StartTicks
  /\ curTicks = U32(0)
  /\ data = <<0>>
  /\ algresultData = <<0, 0>>
  /\ concatData = 0
  /\ dataAvailable = FALSE
  /\ leds = 0
  /\ nvicEnabled = [l \in Lines |-> FALSE]
  /\ intFlag = [l \in Lines |-> FALSE]
  /\ xfer = NoXfer
  /\ result = i2cTransferDone
  /\ ret = <<>>
  /\ busActive = 0
  /\ rx = <<>>
  /\ bootLog = <<>>
  /\ bootFail = 0
  /\ iterReads = 0
  /\ readSinceSet = TRUE
  /\ clock = 0

NextDelay ==
  \/ Delay_Call
  \/ SysTick_Handler
  \/ Delay_Return

\* The tick handler keeps running and Delay() keeps polling
SpecDelay ==
  /\ InitDelay /\ [][NextDelay]_vars
  /\ WF_vars(SysTick_Handler)
  /\ WF_vars(Delay_Call)
  /\ WF_vars(Delay_Return)

----------------------------------------------------------------------------
(* Properties                                                              *)

\* A step of one of the two GPIO interrupt handlers
HandlerStep == GPIO_EVEN_IRQHandler \/ GPIO_ODD_IRQHandler

\* C1: dataAvailable goes true -> false only at line 369 of the read loop, and
\* then a read of ALG_RESULT_DATA has been issued earlier in the same
\* iteration; it goes false -> true only in a step of a GPIO handler.
C1_ClearOnlyAfterRead ==
  [][ /\ (dataAvailable /\ ~dataAvailable') =>
           (pc = "L369" /\ fn = "main" /\ iterReads >= 1 /\ ~HandlerStep)
      /\ (~dataAvailable /\ dataAvailable') => HandlerStep ]_vars

\* C1 witness: the loop has just cleared the flag after its read.
C1_Witness == pc = "L370" /\ ~dataAvailable /\ iterReads = 1

\* main is between its inspection of the flag (line 364) and its clearing of it
\* (line 369)
InCheckClearWindow == pc \in {"L367", "L368", "L369"}

\* C2: no handler step happens between the loop's inspection of the flag and its
\* clearing of it, and whenever the loop clears the flag a read of
\* ALG_RESULT_DATA has been issued since the flag was last set.
C2_NoEventLost ==
  [][ /\ HandlerStep => ~InCheckClearWindow
      /\ (dataAvailable /\ ~dataAvailable') => readSinceSet ]_vars

\* C2 witness: a new edge arrives while the loop is about to clear the flag; its
\* handler is held off and the flag about to be cleared has been read for.
C2_Witness ==
  /\ pc = "L369" /\ dataAvailable /\ readSinceSet
  /\ intFlag[GPIO_EVEN_IRQn]

\* C3 (as claimed): while the result of the last read is a failure the LED
\* output does not change.
C3_FailedReadKeepsLevel ==
  [][ (result \in {i2cTransferNack, i2cTransferBusErr}) => (leds' = leds) ]_vars

\* C4 (as claimed): once a boot transaction has failed no later boot
\* transaction is issued; in particular after a failed APP_START command the
\* MEASURE_MODE register is not written.
C4_BootStopsAtFailure ==
  bootFail # 0 => Len(bootLog) = bootFail

\* The order of boot transactions the claim states: kind and register
BootOrder == <<
  <<"read", CCS811_ADDR_HW_ID>>,
  <<"read", CCS811_ADDR_STATUS>>,
  <<"write", CCS811_ADDR_FW_VERIFY>>,
  <<"write", CCS811_ADDR_APP_START>>,
  <<"write", CCS811_ADDR_MEASURE_MODE>>,
  <<"read", CCS811_ADDR_ERR_ID>>,
  <<"read", CCS811_ADDR_MEASURE_MODE>> >>

KindOf(op) == IF op = "readMailbox" THEN "read" ELSE "write"
Issued == [i \in 1..Len(bootLog) |-> <<KindOf(bootLog[i].op), bootLog[i].id>>]

\* C5: the boot transactions issued so far are always a prefix of the fixed
\* order, and once boot is over they are exactly that order, each once,
\* whatever the reads returned.
C5_BootOrderFixed ==
  /\ Len(Issued) <= Len(BootOrder)
  /\ Issued = SubSeq(BootOrder, 1, Len(Issued))
  /\ pc # "boot" => Issued = BootOrder

\* C5 witness: boot is over and a diagnostic read returned 0xDC.
C5_Witness ==
  pc = "L357_even" /\ Len(bootLog) = 7 /\ bootFail = 0 /\ data = <<220>>

\* The classification the claim states, as the LED value of each level
Good == 0
Warning == 1
Alert == 3
Classify(v) == IF v > 1200 THEN Alert ELSE IF v > 900 THEN Warning ELSE Good
Severity(l) == IF l = Alert THEN 2 ELSE IF l = Warning THEN 1 ELSE 0

\* C6: for every 16-bit value the LEDs set are those of the stated
\* classification, the severity does not decrease from a value to the next, and
\* 900, 901, 1200, 1201 give Good, Warning, Warning, Alert.
C6_ClassifyTotalMonotonic ==
  /\ pc = "L382_even" =>
       /\ leds \in {Good, Warning, Alert}
       /\ leds = Classify(concatData)
  /\ concatData < MaxConcat =>
       Severity(LedLevel(concatData)) <= Severity(LedLevel(concatData + 1))
  /\ LedLevel(900) = Good /\ LedLevel(901) = Warning
  /\ LedLevel(1200) = Warning /\ LedLevel(1201) = Alert

\* C6 witness: 1200 has been classified as Warning.
C6_Witness == pc = "L382_even" /\ concatData = 1200 /\ leds = Warning

\* C7: after a successful read of ALG_RESULT_DATA that delivered (hi, lo), the
\* level set in that iteration is the classification of 256 * hi + lo.
C7_EmitsClassOfBigEndian ==
  (pc = "L382_even" /\ iterReads = 1 /\ result = i2cTransferDone) =>
    (Len(rx) = 2 /\ leds = Classify(256 * rx[1] + rx[2]))

\* C7 witness: after a boot without failure the bytes 0x03 0x84 gave Good.
C7_Witness ==
  /\ pc = "L382_even" /\ iterReads = 1 /\ result = i2cTransferDone
  /\ bootFail = 0 /\ rx = <<3, 132>> /\ leds = Good

\* C8: a handler step changes nothing of the bus or of the buffers, a
\* transaction is begun only by main when it is in no callee, and at most one
\* transaction is in progress.
C8_BusOnlyFromMain ==
  /\ [](busActive <= 1)
  /\ [][ /\ HandlerStep =>
             UNCHANGED <<xfer, busActive, result, rx, data, algresultData>>
         /\ (busActive' > busActive) => (fn = "main" /\ fn' = "xfer") ]_vars

\* C8 witness: an edge is raised while the read of the result is in progress;
\* its handler is held off.
C8_Witness ==
  busActive = 1 /\ pc = "L367" /\ fn = "xfer" /\ intFlag[GPIO_EVEN_IRQn]

\* C9 (as claimed): back in main after a register operation, a failed transfer
\* has been reported as failure and a completed one has not.
C9_FailureSurfaced ==
  fn = "main" =>
    /\ (result \in {i2cTransferNack, i2cTransferBusErr}) => ret = <<1>>
    /\ (result = i2cTransferDone) => ret # <<1>>

\* C10 (as claimed): readMailbox asks for exactly `length` bytes in one
\* write-then-read transfer; when it is about to return success the buffer
\* holds the `length` bytes delivered, and when it is about to return failure
\* the buffer is as it was at the call.
C10_ReadAllOrNothing ==
  (xfer.caller = "readMailbox") =>
    /\ xfer.flags = "I2C_FLAG_WRITE_READ"
    /\ xfer.len = (IF pc = "boot" THEN 1 ELSE 2)
    /\ (fn = "ret" /\ result = i2cTransferDone) =>
         (Len(rx) = xfer.len /\ Buffer(xfer.buf) = rx)
    /\ (fn = "ret" /\ result # i2cTransferDone) =>
         Buffer(xfer.buf) = xfer.before

\* The width in bytes the register map declares for a writable register
DeclaredWidth(id) ==
  IF id = CCS811_ADDR_MEASURE_MODE THEN 1
  ELSE IF id = CCS811_ADDR_THRESHOLDS THEN 4
  ELSE 0

\* C11: every register write with a payload (writeRegister, writeMailbox) that
\* the program issues carries exactly as many payload bytes as the declared
\* width of its register.
C11_PayloadMatchesWidth ==
  /\ \A i \in 1..Len(bootLog) :
       bootLog[i].op \in {"writeRegister", "writeMailbox"} =>
         bootLog[i].len = DeclaredWidth(bootLog[i].id)
  /\ xfer.flags = "I2C_FLAG_WRITE_WRITE" =>
       (xfer.len = DeclaredWidth(xfer.id) /\ Len(xfer.payload) = xfer.len)

\* C11 witness: the one-byte write of MEASURE_MODE has completed.
C11_Witness ==
  /\ fn = "ret" /\ xfer.caller = "writeRegister" /\ result = i2cTransferDone
  /\ xfer.id = CCS811_ADDR_MEASURE_MODE /\ xfer.offset = 1

\* The sensor interrupt is masked / unmasked on both of its NVIC lines
Masked == \A l \in Lines : ~nvicEnabled[l]
Unmasked == \A l \in Lines : nvicEnabled[l]

\* C12: from the inspection of the flag (line 364) up to the unmasking at the
\* bottom (line 382) the interrupt is masked, with or without an event; a line
\* is unmasked only by enableSensorInterrupts(), and at the entry to the wait
\* (line 383) the interrupt is unmasked.
C12_MaskedWhileServicing ==
  /\ [](pc \in {"L364", "L367", "L368", "L369", "L370", "L382_even"} => Masked)
  /\ [](pc \in {"L383", "L383_wfi"} => Unmasked)
  /\ [][ (\E l \in Lines : ~nvicEnabled[l] /\ nvicEnabled'[l]) =>
           pc \in {"L357_even", "L357_odd", "L382_even", "L382_odd"} ]_vars

\* C12 witness: an iteration that found no event is still masked at the bottom,
\* before enableSensorInterrupts().
C12_Witness ==
  pc = "L382_even" /\ iterReads = 0 /\ ~dataAvailable /\ Masked

\* C13: an iteration issues at most one bus transaction; the check at line 364
\* leads to the read exactly when it sees the flag true, that read is the one
\* 2-byte write-then-read of ALG_RESULT_DATA, and it is followed by no other
\* in the iteration, whatever edges arrive meanwhile.
C13_OneReadPerIteration ==
  /\ [](iterReads <= 1)
  /\ [](pc \in {"L368", "L369", "L370"} => iterReads = 1)
  /\ [][ /\ (pc = "L364" /\ pc' # pc) =>
              /\ dataAvailable => pc' = "L367"
              /\ ~dataAvailable => (pc' = "L382_even" /\ iterReads = 0)
         /\ (pc # "L367" /\ pc' = "L367") => (pc = "L364" /\ dataAvailable)
         /\ (pc # "boot" /\ busActive' > busActive) =>
              /\ pc = "L367" /\ iterReads = 0 /\ iterReads' = 1
              /\ xfer'.flags = "I2C_FLAG_WRITE_READ"
              /\ xfer'.id = CCS811_ADDR_ALG_RESULT_DATA
              /\ xfer'.len = 2 ]_vars

\* C13 witness: an edge arrived while the iteration was servicing; the
\* iteration ends with its one read.
C13_Witness ==
  /\ pc = "L382_even" /\ iterReads = 1 /\ ~dataAvailable
  /\ intFlag[GPIO_EVEN_IRQn]

\* A step of main in an iteration that found the flag false at line 364
NoEventStep ==
  /\ fn = "main" /\ pc' # pc
  /\ \/ pc = "L364" /\ ~dataAvailable
     \/ pc \in {"L382_even", "L382_odd", "L383"} /\ iterReads = 0

\* C14: the steps of an iteration that found the flag false start no bus
\* transaction and leave the LEDs, the result buffer and the flag as they are;
\* from the check the iteration goes to the unmasking and the wait.
C14_SpuriousWakeChangesNothing ==
  [][ NoEventStep =>
        /\ UNCHANGED <<leds, algresultData, concatData, dataAvailable,
                       busActive, xfer, result, rx>>
        /\ pc = "L364" => pc' = "L382_even"
        /\ pc = "L382_even" => pc' = "L382_odd"
        /\ pc = "L382_odd" => pc' = "L383"
        /\ pc = "L383" => pc' = "L383_wfi" ]_vars

\* C14 witness: an iteration found no event while the LEDs show Alert.
C14_Witness ==
  pc = "L382_even" /\ iterReads = 0 /\ ~dataAvailable /\ leds = Alert

\* C15: during the boot sequence and up to line 357 the interrupt is masked and
\* dataAvailable has its initial value false; whenever a line is unmasked all
\* seven boot transactions have been issued and ended.
C15_ArmedOnlyAfterBoot ==
  /\ pc \in {"boot", "L357_even"} => (Masked /\ ~dataAvailable)
  /\ ~Masked => (pc # "boot" /\ Len(bootLog) = Len(BootOrder))

\* C15 witness: an edge is raised during the last boot transaction and its
\* handler does not run.
C15_Witness ==
  /\ pc = "boot" /\ bootIdx = Len(BootProgram) /\ fn = "xfer"
  /\ intFlag[GPIO_EVEN_IRQn] /\ ~dataAvailable

\* main is in the body of the read loop, from the masking at line 363 to the
\* entry into the wait at line 383 (Servicing); main waits with the interrupt
\* unmasked (Armed)
Servicing ==
  pc \in {"L363_even", "L363_odd", "L364", "L367", "L368", "L369", "L370",
          "L382_even", "L382_odd", "L383"}
Armed == pc = "L383_wfi"

\* C16: whenever the loop is servicing, it is armed again later, whether the
\* read of the iteration completed or failed.
C16_ServicingLeadsToArmed == Servicing ~> Armed

\* C16 witness: the loop is armed again after an iteration whose read failed.
C16_Witness ==
  Armed /\ iterReads = 1 /\ result = i2cTransferBusErr

\* C17 (as claimed): once a handler has set the flag, a read of ALG_RESULT_DATA
\* is issued later, with no further edge or wake-up needed.
C17_SetLeadsToRead == (dataAvailable /\ ~readSinceSet) ~> readSinceSet

\* The tick count at which the boot transaction (op, id) was issued, as a set
\* (empty until it is issued)
IssuedAt(op, id) ==
  {bootLog[i].at : i \in {j \in DOMAIN bootLog :
                             bootLog[j].op = op /\ bootLog[j].id = id}}

\* C18: at least 100 ticks lie between the FW_VERIFY command and the APP_START
\* command, and at least 1000 ticks between the APP_START command and the
\* write of MEASURE_MODE.
C18_SettleDelaysKept ==
  /\ \A v \in IssuedAt("writeNoData", CCS811_ADDR_FW_VERIFY) :
       \A a \in IssuedAt("writeNoData", CCS811_ADDR_APP_START) :
         a - v >= 100
  /\ \A a \in IssuedAt("writeNoData", CCS811_ADDR_APP_START) :
       \A m \in IssuedAt("writeRegister", CCS811_ADDR_MEASURE_MODE) :
         m - a >= 1000

\* C18 witness: the three commands have been issued, after both settle delays.
C18_Witness ==
  /\ IssuedAt("writeNoData", CCS811_ADDR_FW_VERIFY) # {}
  /\ IssuedAt("writeNoData", CCS811_ADDR_APP_START) # {}
  /\ IssuedAt("writeRegister", CCS811_ADDR_MEASURE_MODE) # {}
  /\ pc = "boot" /\ fn = "xfer" /\ xfer.caller = "writeRegister"
  /\ bootLog[5].at - bootLog[4].at = 1000
  /\ bootLog[4].at - bootLog[3].at = 100

\* Bit n of the byte b
Bit(b, n) == (b \div (2 ^ n)) % 2

\* The drive-mode field of a measure-mode byte, bits 4-6
DriveField(b) == (b \div (2 ^ CCS811_MEASURE_MODE_DRIVE_MODE_SHIFT)) % 8

\* C19: the byte that writeRegister sends to MEASURE_MODE is 0x18: its drive
\* field is the 1 second mode, bit 3 (interrupt enable) is set, bit 2
\* (threshold interrupt) is clear, and it equals the bitwise OR of the drive
\* mode and the flag.
C19_MeasureModeByte ==
  xfer.caller = "writeRegister" =>
    /\ xfer.id = CCS811_ADDR_MEASURE_MODE
    /\ xfer.payload = <<24>>
    /\ DriveField(xfer.payload[1])
         = CCS811_MEASURE_MODE_DRIVE_MODE_1SEC
             \div (2 ^ CCS811_MEASURE_MODE_DRIVE_MODE_SHIFT)
    /\ Bit(xfer.payload[1], 3) = 1
    /\ Bit(CCS811_MEASURE_MODE_INTERRUPT, 3) = 1
    /\ Bit(xfer.payload[1], 2) = 0
    /\ Bit(CCS811_MEASURE_MODE_THRESH, 2) = 1
    /\ xfer.payload[1] = BitOr(CCS811_MEASURE_MODE_DRIVE_MODE_1SEC,
                               CCS811_MEASURE_MODE_INTERRUPT)

\* C19 witness: the payload byte of the MEASURE_MODE write is on the bus.
C19_Witness ==
  /\ fn = "xfer" /\ xfer.caller = "writeRegister" /\ xfer.phase = "data"
  /\ xfer.payload = <<24>>

\* Delay() has returned to main: the statement before the current one is the
\* Delay call
DelayReturned ==
  /\ pc = "boot" /\ fn = "main" /\ bootIdx > 1
  /\ Stmt.op # "Delay"
  /\ BootProgram[bootIdx - 1].op = "Delay"

\* C20: Delay(n) has returned only when at least n ticks have passed since the
\* call, the counter being n past the sampled value modulo 2^32, from every
\* starting value; and it does return.
C20_DelayWaitsAndReturns ==
  /\ [](DelayReturned =>
         /\ clock >= BootProgram[bootIdx - 1].arg
         /\ ~Less32(Sub32(msTicks, curTicks),
                    U32(BootProgram[bootIdx - 1].arg)))
  /\ <>DelayReturned

\* C20 witness: Delay(1000) has returned after the counter wrapped during the
\* wait.
C20_Witness ==
  /\ DelayReturned
  /\ BootProgram[bootIdx - 1].arg = 1000
  /\ clock = 1000
  /\ Less32(msTicks, curTicks)
  /\ curTicks[1] = Half - 1

====
